---- MODULE Spec2Model ----
(***************************************************************************)
(* A model of WA_Snap_ExifUpdater.py: main() sequencing backup, verify and *)
(* the patch walk over a directory tree, with the filename classifier, the *)
(* backup engine, the checksum verifier and the two metadata patchers.     *)
(*                                                                         *)
(* Strings (file names, path strings, formatted dates) are sequences of    *)
(* one-character strings, so that the regular expressions, the slices and  *)
(* the path concatenations of the code are computed, not assumed.          *)
(***************************************************************************)
EXTENDS Integers, Sequences, FiniteSets, TLC

VARIABLES
    files,      \* the filesystem's regular files: path (components) -> content
    dirs,       \* the filesystem's directories: set of paths (components)
    cfg,        \* what main() gathered: mode, directory, override, recursive, date
    pc,         \* main()'s position
    walk,       \* the os.walk generator of the loop that is running
    bk,         \* backup_directory's local backup_dir_name (a path string)
    stats,      \* process_directory's counters
    last,       \* the last call of a patcher: what it was given and what it did
    hist        \* observations of the runs so far (what the properties read)

vars == <<files, dirs, cfg, pc, walk, bk, stats, last, hist>>

-----------------------------------------------------------------------------
(* Bounds of the model *)

\* files the target directory holds when the first run starts
MaxFiles == 2
\* runs of main() against the same directory, and the files it then holds
\* when the first run starts
MaxRuns == 2
MaxRepeatFiles == 1
\* calls of update_image_metadata on one file
MaxCalls == 3

-----------------------------------------------------------------------------
(* Strings *)

Digits == <<"0", "1", "2", "3", "4", "5", "6", "7", "8", "9">>

IsDigit(c) == \E i \in 1..10 : Digits[i] = c

DigitVal(c) == (CHOOSE i \in 1..10 : Digits[i] = c) - 1

RECURSIVE StrToInt(_)
StrToInt(s) ==
    IF s = <<>> THEN 0
    ELSE 10 * StrToInt(SubSeq(s, 1, Len(s) - 1)) + DigitVal(s[Len(s)])

RECURSIVE IntToStr(_)
IntToStr(n) ==
    IF n < 10 THEN <<Digits[n + 1]>>
    ELSE IntToStr(n \div 10) \o <<Digits[(n % 10) + 1]>>

RECURSIVE ZeroPad(_, _)
ZeroPad(s, w) == IF Len(s) >= w THEN s ELSE ZeroPad(<<"0">> \o s, w)

EndsWith(s, p) == Len(s) >= Len(p) /\ SubSeq(s, Len(s) - Len(p) + 1, Len(s)) = p

Upper == <<"A", "B", "C", "D", "E", "F", "G", "H", "I", "J", "K", "L", "M",
           "N", "O", "P", "Q", "R", "S", "T", "U", "V", "W", "X", "Y", "Z">>
Lower == <<"a", "b", "c", "d", "e", "f", "g", "h", "i", "j", "k", "l", "m",
           "n", "o", "p", "q", "r", "s", "t", "u", "v", "w", "x", "y", "z">>

LowerChar(c) ==
    IF \E i \in 1..26 : Upper[i] = c
    THEN Lower[CHOOSE i \in 1..26 : Upper[i] = c]
    ELSE c

\* str.lower()
lower(s) == [i \in 1..Len(s) |-> LowerChar(s[i])]

\* What "$" leaves to match: re.match's "$" matches at the end of the string
\* and also just before a newline that ends it.
BeforeDollar(s) ==
    IF Len(s) > 0 /\ s[Len(s)] = "\n" THEN {s, SubSeq(s, 1, Len(s) - 1)} ELSE {s}

-----------------------------------------------------------------------------
(* Filename Classifier *)

\* WHATSAPP_IMAGE_PATTERN = r"^IMG-\d{8}-WA\d{4}\.jpg$"
MatchesWhatsApp(n) ==
    /\ Len(n) = 23
    /\ SubSeq(n, 1, 4) = <<"I", "M", "G", "-">>
    /\ \A i \in 5..12 : IsDigit(n[i])
    /\ SubSeq(n, 13, 15) = <<"-", "W", "A">>
    /\ \A i \in 16..19 : IsDigit(n[i])
    /\ SubSeq(n, 20, 23) = <<".", "j", "p", "g">>

\* SNAPCHAT_FILE_PATTERN = r"^Snapchat-\d+\.(jpg|mp4)$"
MatchesSnapchat(n) ==
    /\ Len(n) >= 14
    /\ SubSeq(n, 1, 9) = <<"S", "n", "a", "p", "c", "h", "a", "t", "-">>
    /\ \A i \in 10..(Len(n) - 4) : IsDigit(n[i])
    /\ SubSeq(n, Len(n) - 3, Len(n)) \in
           {<<".", "j", "p", "g">>, <<".", "m", "p", "4">>}

is_whatsapp_image(filename) == \E n \in BeforeDollar(filename) : MatchesWhatsApp(n)

is_snapchat_file(filename) == \E n \in BeforeDollar(filename) : MatchesSnapchat(n)

\* A date is [y, m, d] with ok = TRUE, or the ValueError strptime raises.
NoDate == [ok |-> FALSE, y |-> 0, m |-> 0, d |-> 0]

IsLeap(y) == (y % 4 = 0 /\ y % 100 # 0) \/ y % 400 = 0

DaysInMonth(y, m) ==
    IF m = 2 THEN (IF IsLeap(y) THEN 29 ELSE 28)
    ELSE IF m \in {4, 6, 9, 11} THEN 30 ELSE 31

\* datetime.strptime(date_str, '%Y%m%d') on eight characters
strptime_Ymd(s) ==
    IF Len(s) # 8 \/ \E i \in 1..Len(s) : ~IsDigit(s[i]) THEN NoDate
    ELSE LET y == StrToInt(SubSeq(s, 1, 4))
             m == StrToInt(SubSeq(s, 5, 6))
             d == StrToInt(SubSeq(s, 7, 8))
         IN  IF y >= 1 /\ m \in 1..12 /\ d >= 1 /\ d <= DaysInMonth(y, m)
             THEN [ok |-> TRUE, y |-> y, m |-> m, d |-> d]
             ELSE NoDate

\* filename[4:12]: the slice is cut short by a short name
extract_date_from_whatsapp_filename(filename) ==
    strptime_Ymd(SubSeq(filename, 5, IF Len(filename) < 12 THEN Len(filename) ELSE 12))

\* date.strftime("%Y:%m:%d %H:%M:%S") of a date at midnight
strftime_exif(date) ==
    ZeroPad(IntToStr(date.y), 4) \o <<":">> \o ZeroPad(IntToStr(date.m), 2) \o <<":">>
        \o ZeroPad(IntToStr(date.d), 2)
        \o <<" ", "0", "0", ":", "0", "0", ":", "0", "0">>

\* date.strftime("%Y-%m-%dT%H:%M:%S") of a date at midnight
strftime_iso(date) ==
    ZeroPad(IntToStr(date.y), 4) \o <<"-">> \o ZeroPad(IntToStr(date.m), 2) \o <<"-">>
        \o ZeroPad(IntToStr(date.d), 2)
        \o <<"T", "0", "0", ":", "0", "0", ":", "0", "0">>

-----------------------------------------------------------------------------
(* Path strings and the filesystem *)

\* The components a path string names: the separator splits it, and an empty
\* component (a doubled or a trailing separator) names nothing.
RECURSIVE SplitAcc(_, _, _, _)
SplitAcc(s, i, cur, acc) ==
    IF i > Len(s) THEN (IF cur = <<>> THEN acc ELSE Append(acc, cur))
    ELSE IF s[i] = "/"
         THEN SplitAcc(s, i + 1, <<>>, IF cur = <<>> THEN acc ELSE Append(acc, cur))
         ELSE SplitAcc(s, i + 1, Append(cur, s[i]), acc)

Components(s) == SplitAcc(s, 1, <<>>, <<>>)

RECURSIVE JoinComponents(_)
JoinComponents(cs) ==
    IF cs = <<>> THEN <<>>
    ELSE IF Len(cs) = 1 THEN cs[1]
    ELSE cs[1] \o <<"/">> \o JoinComponents(Tail(cs))

\* os.path.join(a, b) for a relative b
os_path_join(a, b) ==
    IF a = <<>> \/ a[Len(a)] = "/" THEN a \o b ELSE a \o <<"/">> \o b

\* os.path.relpath(path, start) for a path under start
os_path_relpath(path, start) ==
    JoinComponents(SubSeq(Components(path), Len(Components(start)) + 1,
                          Len(Components(path))))

\* every directory above the file or directory p
Ancestors(p) == {SubSeq(p, 1, k) : k \in 1..(Len(p) - 1)}

os_path_exists(F, Ds, s) == Components(s) \in DOMAIN F \/ Components(s) \in Ds

os_path_isdir(Ds, s) == Components(s) \in Ds

Put(F, p, c) == [q \in DOMAIN F \cup {p} |-> IF q = p THEN c ELSE F[q]]

Remove(F, p) == [q \in DOMAIN F \ {p} |-> F[q]]

IsUnder(q, P) == Len(q) > Len(P) /\ SubSeq(q, 1, Len(P)) = P

ChildrenOf(S, P) == {q \in S : Len(q) = Len(P) + 1 /\ SubSeq(q, 1, Len(P)) = P}

\* the order in which a directory's entries are listed: arbitrary, but fixed
RECURSIVE SetToSeq(_)
SetToSeq(S) ==
    IF S = {} THEN <<>>
    ELSE LET x == CHOOSE y \in S : TRUE IN <<x>> \o SetToSeq(S \ {x})

(* File contents.  fmt: what the bytes are ("jpeg": an image PIL identifies,   *)
(* "mp4": a video, "corrupt"/"truncated": bytes no codec reads, "other").      *)
(* hasExif, dto, dtd, dt: the image's 'exif' block and its DateTimeOriginal,   *)
(* DateTimeDigitized and 0th DateTime (<<>>: the tag is not there).  ctime:    *)
(* the container's creation_time.  data: the payload; enc: how often the       *)
(* payload was re-encoded by a save.                                           *)
Blank(fmt, data) ==
    [fmt |-> fmt, hasExif |-> FALSE, dto |-> <<>>, dtd |-> <<>>, dt |-> <<>>,
     ctime |-> <<>>, data |-> data, enc |-> 0]

\* what a write that stopped early leaves at a path
Truncated == Blank("truncated", 0)

\* what stands for "no file at this path" in an observation
Absent == Blank("absent", 0)

ContentAt(F, p) == IF p \in DOMAIN F THEN F[p] ELSE Absent

-----------------------------------------------------------------------------
(* Checksum Verifier *)

\* hashlib.md5 over the file's chunks: the digest of the whole byte string.
\* MD5 is taken to be collision-free on the contents of the model.
file_checksum(c) == <<"md5", c>>

\* os.path.getsize
os_path_getsize(c) ==
    IF c.fmt = "truncated" THEN 0
    ELSE 100 + c.data + c.enc + Len(c.dto) + Len(c.dtd) + Len(c.dt) + Len(c.ctime)
             + (IF c.hasExif THEN 8 ELSE 0)

\* verify_backup's test of one pair of files: the error it logs, or "ok"
VerifyPair(F, src, dst) ==
    IF dst \notin DOMAIN F THEN "missing"
    ELSE IF file_checksum(F[src]) # file_checksum(F[dst])
              \/ os_path_getsize(F[src]) # os_path_getsize(F[dst])
         THEN "mismatch"
         ELSE "ok"

-----------------------------------------------------------------------------
(* os.walk *)

\* One yield of os.walk at directory string top: the names of its files, and
\* the roots of its subdirectories, which are listed only when reached.
Yield(top, F, Ds, rest) ==
    LET P == Components(top)
    IN  [root  |-> top,
         names |-> SetToSeq({q[Len(q)] : q \in ChildrenOf(DOMAIN F, P)}),
         stack |-> LET subs == SetToSeq({q[Len(q)] : q \in ChildrenOf(Ds, P)})
                   IN  [i \in 1..Len(subs) |-> os_path_join(top, subs[i])] \o rest]

\* The generator moved on to its next file: directories without files are
\* passed over, each listed as it is reached.
RECURSIVE Advance(_, _, _)
Advance(w, F, Ds) ==
    IF w.names # <<>> \/ w.stack = <<>> THEN w
    ELSE Advance(Yield(Head(w.stack), F, Ds, Tail(w.stack)), F, Ds)

NoWalk == [root |-> <<>>, names |-> <<>>, stack |-> <<>>]

\* for root, dirs, files in os.walk(top)
os_walk(top, F, Ds) == Advance([NoWalk EXCEPT !.stack = <<top>>], F, Ds)

Exhausted(w) == w.names = <<>> /\ w.stack = <<>>

-----------------------------------------------------------------------------
(* Metadata Patcher, image variant *)

\* update_image_metadata without its test for DateTimeOriginal: it writes again
update_image_metadata_NoExistsCheck(c, filename, date) ==
    IF c.fmt # "jpeg" THEN {[result |-> "failed", after |-> c]}
    ELSE LET d == IF date = NoDate
                  THEN extract_date_from_whatsapp_filename(filename)
                  ELSE date
         IN  IF ~d.ok THEN {[result |-> "failed", after |-> c]}
             ELSE {[result |-> "updated",
                    after  |-> [c EXCEPT !.hasExif = TRUE,
                                         !.dto = strftime_exif(d),
                                         !.dtd = strftime_exif(d),
                                         !.dt = strftime_exif(d),
                                         !.enc = c.enc + 1]]}

\* update_image_metadata(file_path, date) on a file of content c named
\* filename: every (result, content left at the path) the call can end with.
\* date = NoDate stands for date=None.
update_image_metadata(c, filename, date) ==
    IF c.fmt # "jpeg"
    THEN \* Image.open raises UnidentifiedImageError
         {[result |-> "failed", after |-> c]}
    ELSE IF c.hasExif /\ c.dto # <<>>
    THEN {[result |-> "exists", after |-> c]}
    ELSE LET d == IF date = NoDate
                  THEN extract_date_from_whatsapp_filename(filename)
                  ELSE date
         IN  IF ~d.ok
             THEN \* strptime raised ValueError
                  {[result |-> "failed", after |-> c]}
             ELSE LET formatted_date == strftime_exif(d)
                  IN  { \* img.save wrote the file
                        [result |-> "updated",
                         after  |-> [c EXCEPT !.hasExif = TRUE,
                                              !.dto = formatted_date,
                                              !.dtd = formatted_date,
                                              !.dt = formatted_date,
                                              !.enc = c.enc + 1]],
                        \* piexif.dump raised: the file was not opened for writing
                        [result |-> "failed", after |-> c],
                        \* img.save raised after it opened file_path for writing
                        [result |-> "failed", after |-> Truncated] }

-----------------------------------------------------------------------------
(* Metadata Patcher, video variant *)

temp_file_of(file_path) == file_path \o <<"_", "t", "e", "m", "p", ".", "m", "p", "4">>

\* an except branch that forgets the temporary file
CleanupTemp_Forgotten(F, t) == F

\* What the except branch leaves: the temporary file is removed if it is there.
CleanupTemp(F, t) == IF t \in DOMAIN F THEN Remove(F, t) ELSE F

\* update_video_metadata(file_path, date) on filesystem F: every (how the
\* remux ended, result, files left) the call can end with.  result "raise":
\* an exception the function does not catch.
update_video_metadata(F, file_path, date) ==
    LET p == Components(file_path)
        t == Components(temp_file_of(file_path))
        stamped == [F[p] EXCEPT !.ctime = strftime_iso(date)]
    IN  { \* subprocess.run raised FileNotFoundError: no ffmpeg to run
          [remux |-> "unavailable", result |-> "raise", files |-> F] }
        \cup
        { \* ffmpeg exited non-zero, having written no output or a part of it
          [remux |-> "nonzero", result |-> "failed", files |-> CleanupTemp(G, t)] :
              G \in {F, Put(F, t, Truncated)} }
        \cup
        (IF F[p].fmt # "mp4" THEN {}
         ELSE { \* ffmpeg exited 0 and os.replace moved the output over the original
                [remux |-> "zero", result |-> "updated",
                 files |-> Remove(Put(F, p, stamped), t)],
                \* ffmpeg exited 0 and os.replace raised OSError
                [remux |-> "zero", result |-> "raise",
                 files |-> Put(F, t, stamped)] })

-----------------------------------------------------------------------------
(* Directory Walker *)

\* The body of process_directory's loop for one file: which patcher it calls,
\* and every way the call can end.
Dispatch(F, c, filename, file_path) ==
    LET p == Components(file_path)
    IN  IF c.mode = "whatsapp" /\ is_whatsapp_image(filename)
        THEN {[op |-> "image", remux |-> "", result |-> r.result,
               files |-> Put(F, p, r.after)] :
                  r \in update_image_metadata(F[p], filename, NoDate)}
        ELSE IF c.mode = "snapchat" /\ is_snapchat_file(filename)
        THEN IF EndsWith(lower(filename), <<".", "m", "p", "4">>)
             THEN {[op |-> "video", remux |-> r.remux, result |-> r.result,
                    files |-> r.files] :
                       r \in update_video_metadata(F, file_path, c.date)}
             ELSE {[op |-> "image", remux |-> "", result |-> r.result,
                    files |-> Put(F, p, r.after)] :
                       r \in update_image_metadata(F[p], filename, c.date)}
        ELSE {[op |-> "none", remux |-> "", result |-> "skipped", files |-> F]}

ZeroStats == [total |-> 0, matched |-> 0, exists |-> 0, updated |-> 0, failed |-> 0]

\* the counters after one file
Count(st, o) ==
    [total   |-> st.total + 1,
     matched |-> st.matched + (IF o.op # "none" THEN 1 ELSE 0),
     exists  |-> st.exists + (IF o.result = "exists" THEN 1 ELSE 0),
     updated |-> st.updated + (IF o.result = "updated" THEN 1 ELSE 0),
     failed  |-> st.failed + (IF o.result = "failed" THEN 1 ELSE 0)]

\* for root, dirs, files in os.walk(directory): ...  if not recursive: break
ProcessWalk(directory, recursive, F, Ds) ==
    IF recursive THEN os_walk(directory, F, Ds)
    ELSE IF os_path_isdir(Ds, directory)
         THEN [Yield(directory, F, Ds, <<>>) EXCEPT !.stack = <<>>]
         ELSE NoWalk

-----------------------------------------------------------------------------
(* Backup Engine *)

\* backup_directory's while loop: the first of base, base(1), base(2), ...
\* that does not exist
RECURSIVE FirstFree(_, _, _, _, _)
FirstFree(name, base, counter, F, Ds) ==
    IF os_path_exists(F, Ds, name)
    THEN FirstFree(base \o <<"(">> \o IntToStr(counter) \o <<")">>, base,
                   counter + 1, F, Ds)
    ELSE name

backup_dir_base(source_dir) == source_dir \o <<"_", "b", "a", "c", "k", "u", "p">>

backup_dir_name(source_dir, F, Ds) ==
    FirstFree(backup_dir_base(source_dir), backup_dir_base(source_dir), 1, F, Ds)

\* dst_file = os.path.join(destination_dir, os.path.relpath(src_file, source_dir))
dst_file_of(destination_dir, src_file, source_dir) ==
    os_path_join(destination_dir, os_path_relpath(src_file, source_dir))

\* robocopy source destination /E /COPY:DAT: the tree below source as it is when
\* the copy starts, mirrored below destination (which is not copied into itself)
RobocopyFiles(F, S, D) ==
    LET srcs == {q \in DOMAIN F : IsUnder(q, S) /\ ~IsUnder(q, D)}
        to(q) == D \o SubSeq(q, Len(S) + 1, Len(q))
    IN  [r \in DOMAIN F \cup {to(q) : q \in srcs} |->
            IF \E q \in srcs : to(q) = r
            THEN F[CHOOSE q \in srcs : to(q) = r]
            ELSE F[r]]

RobocopyDirs(Ds, S, D) ==
    Ds \cup {D} \cup {D \o SubSeq(q, Len(S) + 1, Len(q)) :
                         q \in {x \in Ds : IsUnder(x, S) /\ x # D /\ ~IsUnder(x, D)}}

\* robocopy's exit statuses: 0 nothing to copy, 1 files copied, 8 and above a
\* copy failed
RobocopyCodes == {0, 1, 8}

\* The statuses robocopy can end with on source S and destination D.  With the
\* destination inside the source it copies the destination into itself until a
\* path is too long, and ends with a failure.
RobocopyOutcomes(S, D) ==
    IF IsUnder(D, S) THEN {rc \in RobocopyCodes : rc >= 8} ELSE RobocopyCodes

-----------------------------------------------------------------------------
(* The directories and files of the model *)

Dir == <<"d">>
DirSlash == <<"d", "/">>
NoSuchDir == <<"x">>
Sub == <<"s">>

WA_Name == <<"I", "M", "G", "-", "2", "0", "2", "3", "0", "8", "1", "5", "-",
             "W", "A", "0", "0", "0", "1", ".", "j", "p", "g">>
\* a name of the convention whose digits are no date (month 13)
WA_BadDate == <<"I", "M", "G", "-", "2", "0", "2", "3", "1", "3", "4", "5", "-",
                "W", "A", "0", "0", "0", "2", ".", "j", "p", "g">>
Snap_Jpg == <<"S", "n", "a", "p", "c", "h", "a", "t", "-", "1", ".", "j", "p", "g">>
Snap_Mp4 == <<"S", "n", "a", "p", "c", "h", "a", "t", "-", "1", ".", "m", "p", "4">>
Snap_Temp == temp_file_of(Snap_Mp4)
Other_Name == <<"a", ".", "t", "x", "t">>

OldDate == [ok |-> TRUE, y |-> 2020, m |-> 2, d |-> 29]

\* the dates the operator can type at the prompt
Dates == {[ok |-> TRUE, y |-> 2024, m |-> 1, d |-> 10],
          [ok |-> TRUE, y |-> 2022, m |-> 12, d |-> 31]}

Jpeg == Blank("jpeg", 1)
JpegDated == [Jpeg EXCEPT !.hasExif = TRUE, !.dto = strftime_exif(OldDate)]
JpegOtherTags == [Jpeg EXCEPT !.hasExif = TRUE, !.dt = strftime_exif(OldDate)]
Mp4 == Blank("mp4", 2)
Mp4Dated == [Mp4 EXCEPT !.ctime = strftime_iso(OldDate)]

\* what the target directory can hold when the first run starts
Catalogue ==
    {[path |-> <<Dir, WA_Name>>, content |-> c] :
        c \in {Jpeg, JpegDated, JpegOtherTags, Blank("corrupt", 3)}}
    \cup {[path |-> <<Dir, WA_BadDate>>, content |-> Jpeg]}
    \cup {[path |-> <<Dir, Snap_Jpg>>, content |-> c] : c \in {Jpeg, JpegDated}}
    \cup {[path |-> <<Dir, Snap_Mp4>>, content |-> c] : c \in {Mp4, Mp4Dated}}
    \cup {[path |-> <<Dir, Snap_Temp>>, content |-> Blank("other", 4)]}
    \cup {[path |-> <<Dir, Other_Name>>, content |-> Blank("other", 5)]}
    \cup {[path |-> <<Dir, Sub, WA_Name>>, content |-> Jpeg]}

Trees ==
    {T \in SUBSET Catalogue :
        /\ Cardinality(T) <= MaxFiles
        /\ \A a, b \in T : a.path = b.path => a = b}

TreeFiles(T) == [q \in {e.path : e \in T} |-> (CHOOSE e \in T : e.path = q).content]

Configs ==
    {c \in [mode : {"whatsapp", "snapchat"}, directory : {Dir, DirSlash, NoSuchDir},
            override : BOOLEAN, recursive : BOOLEAN, date : Dates \cup {NoDate}] :
        (c.mode = "snapchat") <=> (c.date # NoDate)}

\* platform.system()
Platforms == {"Linux", "Windows", "Java"}

NoCall == [op |-> "none", path |-> <<>>, result |-> "", remux |-> "",
           before |-> Absent, tempBefore |-> Absent, prior |-> FALSE]

\* what a run starts with
NewRun(h, F) ==
    [h EXCEPT !.run = h.run + 1, !.snap = F, !.presnap = F, !.verified = {},
              !.verr = {}, !.passed = {}, !.abort = "", !.named = <<>>,
              !.bkDone = FALSE, !.vfDone = FALSE]

StartOfRuns(T, c, emptySub) ==
    /\ files = TreeFiles(T)
    /\ dirs = {<<Dir>>} \cup UNION {Ancestors(e.path) : e \in T}
                  \cup (IF emptySub /\ T = {} THEN {<<Dir, Sub>>} ELSE {})
    /\ cfg = c
    /\ pc = "main"
    /\ walk = NoWalk
    /\ bk = <<>>
    /\ stats = ZeroStats
    /\ last = NoCall
    /\ hist = [run |-> 1, returned |-> <<>>, snap |-> TreeFiles(T),
               presnap |-> TreeFiles(T), verified |-> {}, verr |-> {},
               passed |-> {}, abort |-> "", named |-> <<>>, bkDone |-> FALSE,
               vfDone |-> FALSE, overwrote |-> FALSE,
               updated |-> [q \in {} |-> Absent]]

\* one run of main() on a directory of up to MaxFiles files
Init == \E T \in Trees, c \in Configs, emptySub \in BOOLEAN : StartOfRuns(T, c, emptySub)

\* the first of several runs of main() on a directory of up to MaxRepeatFiles files
InitRepeat ==
    \E T \in {U \in Trees : Cardinality(U) <= MaxRepeatFiles},
       c \in {x \in Configs : x.directory # NoSuchDir}, emptySub \in BOOLEAN :
        StartOfRuns(T, c, emptySub)

-----------------------------------------------------------------------------
(* Session Controller: main() *)

\* a main() that never backs up
MainBranch_NoBackup(c, Ds) ==
    IF ~os_path_isdir(Ds, c.directory) THEN "done" ELSE "process"

\* where main() goes once it has its configuration
MainBranch(c, Ds) ==
    IF ~os_path_isdir(Ds, c.directory) THEN "done"
    ELSE IF ~c.override THEN "backup_directory"
    ELSE "process"

StartProcess ==
    /\ walk' = ProcessWalk(cfg.directory, cfg.recursive, files, dirs)
    /\ stats' = ZeroStats

\* main(), lines 231-250: the directory check and the choice to back up
Main ==
    /\ pc = "main"
    /\ pc' = MainBranch(cfg, dirs)
    /\ IF pc' = "process"
       THEN StartProcess /\ UNCHANGED <<files, dirs, cfg, bk, last, hist>>
       ELSE UNCHANGED <<files, dirs, cfg, walk, bk, stats, last, hist>>

\* backup_directory, lines 114-120: the name of the backup
BackupName ==
    /\ pc = "backup_directory"
    /\ bk' = backup_dir_name(cfg.directory, files, dirs)
    /\ hist' = [hist EXCEPT !.named = bk']
    /\ pc' = "platform"
    /\ UNCHANGED <<files, dirs, cfg, walk, stats, last>>

\* where backup_directory goes on platform.system()
PlatformBranch(os) ==
    IF os = "Windows" THEN "robocopy"
    ELSE IF os \in {"Linux", "Darwin"} THEN "copy"
    ELSE "aborted"

\* backup_directory, lines 122-129: the copy strategy, or OSError
BackupPlatform ==
    /\ pc = "platform"
    /\ \E os_type \in Platforms : pc' = PlatformBranch(os_type)
    /\ walk' = IF pc' = "copy" THEN os_walk(cfg.directory, files, dirs) ELSE walk
    /\ hist' = IF pc' = "aborted" THEN [hist EXCEPT !.abort = "backup"] ELSE hist
    /\ UNCHANGED <<files, dirs, cfg, bk, stats, last>>

\* whether backup_directory_for_windows raises on robocopy's exit status
RobocopyRaises(returncode) == returncode > 1

\* backup_directory_for_windows, and backup_directory's return to main()
Robocopy ==
    /\ pc = "robocopy"
    /\ \E returncode \in RobocopyOutcomes(Components(cfg.directory), Components(bk)) :
          LET S == Components(cfg.directory)
              D == Components(bk)
          IN  IF RobocopyRaises(returncode)
              THEN /\ dirs' = dirs \cup {D}
                   /\ files' = files
                   /\ pc' = "aborted"
                   /\ hist' = [hist EXCEPT !.abort = "backup"]
                   /\ walk' = walk
              ELSE /\ dirs' = RobocopyDirs(dirs, S, D)
                   /\ files' = RobocopyFiles(files, S, D)
                   /\ pc' = "verify"
                   /\ hist' = [hist EXCEPT !.returned = Append(@, bk),
                                           !.bkDone = TRUE]
                   /\ walk' = os_walk(cfg.directory, files', dirs')
    /\ UNCHANGED <<cfg, bk, stats, last>>

\* backup_directory_for_unix, lines 103-108: one file copied, or the I/O error
\* that ends the copy with the destination cut short
CopyFile ==
    /\ pc = "copy"
    /\ walk.names # <<>>
    /\ LET src_file == os_path_join(walk.root, Head(walk.names))
           dst_file == dst_file_of(bk, src_file, cfg.directory)
           src == Components(src_file)
           dst == Components(dst_file)
       IN  /\ dirs' = dirs \cup Ancestors(dst)
           /\ \E copied \in BOOLEAN :
                 IF copied
                 THEN /\ files' = Put(files, dst, files[src])
                      /\ pc' = pc
                      /\ walk' = Advance([walk EXCEPT !.names = Tail(@)], files', dirs')
                      /\ hist' = [hist EXCEPT !.overwrote = @ \/ dst \in DOMAIN files]
                 ELSE /\ files' = Put(files, dst, Truncated)
                      /\ pc' = "aborted"
                      /\ walk' = walk
                      /\ hist' = [hist EXCEPT !.abort = "backup",
                                              !.overwrote = @ \/ dst \in DOMAIN files]
    /\ UNCHANGED <<cfg, bk, stats, last>>

\* backup_directory_for_unix's loop is over: backup_directory returns its name
\* and main() starts verify_backup
BackupReturn ==
    /\ pc = "copy"
    /\ Exhausted(walk)
    /\ hist' = [hist EXCEPT !.returned = Append(@, bk), !.bkDone = TRUE]
    /\ pc' = "verify"
    /\ walk' = os_walk(cfg.directory, files, dirs)
    /\ UNCHANGED <<files, dirs, cfg, bk, stats, last>>

\* verify_backup, lines 74-86: one source file against its copy
VerifyFile ==
    /\ pc = "verify"
    /\ walk.names # <<>>
    /\ LET src_file == os_path_join(walk.root, Head(walk.names))
           dst_file == dst_file_of(bk, src_file, cfg.directory)
           src == Components(src_file)
           found == VerifyPair(files, src, Components(dst_file))
       IN  hist' = [hist EXCEPT
                      !.verified = @ \cup {src},
                      !.verr = IF found = "ok" THEN @
                               ELSE @ \cup {[error |-> found, path |-> src]}]
    /\ walk' = Advance([walk EXCEPT !.names = Tail(@)], files, dirs)
    /\ UNCHANGED <<files, dirs, cfg, pc, bk, stats, last>>

\* verify_backup returns and main() calls process_directory
VerifyReturn ==
    /\ pc = "verify"
    /\ Exhausted(walk)
    /\ pc' = "process"
    /\ StartProcess
    /\ hist' = [hist EXCEPT !.vfDone = TRUE, !.presnap = files]
    /\ UNCHANGED <<files, dirs, cfg, bk, last>>

\* process_directory, lines 195-220: one file counted, classified and patched
ProcessFile ==
    /\ pc = "process"
    /\ walk.names # <<>>
    /\ LET filename == Head(walk.names)
           file_path == os_path_join(walk.root, filename)
           p == Components(file_path)
       IN  \E o \in Dispatch(files, cfg, filename, file_path) :
              /\ files' = o.files
              /\ last' = [op |-> o.op, path |-> p, result |-> o.result,
                          remux |-> o.remux, before |-> ContentAt(files, p),
                          tempBefore |->
                              ContentAt(files, Components(temp_file_of(file_path))),
                          prior |-> p \in DOMAIN hist.updated]
              /\ hist' = [hist EXCEPT
                    !.passed = IF o.op = "none" THEN @ ELSE @ \cup {p},
                    !.abort = IF o.result = "raise" THEN "patch" ELSE @,
                    !.updated = IF o.op = "image" /\ o.result = "updated"
                                   /\ p \notin DOMAIN @
                                THEN Put(@, p, o.files[p]) ELSE @]
              /\ IF o.result = "raise"
                 THEN pc' = "aborted" /\ UNCHANGED <<walk, stats>>
                 ELSE /\ pc' = pc
                      /\ stats' = Count(stats, o)
                      /\ walk' = Advance([walk EXCEPT !.names = Tail(@)], files', dirs)
    /\ UNCHANGED <<dirs, cfg, bk>>

\* process_directory returns its counters and main() reports them
ProcessReturn ==
    /\ pc = "process"
    /\ Exhausted(walk)
    /\ pc' = "done"
    /\ UNCHANGED <<files, dirs, cfg, walk, bk, stats, last, hist>>

\* the operator runs the program again on the same directory
Restart ==
    /\ pc \in {"done", "aborted"}
    /\ hist.run < MaxRuns
    /\ \E c \in {x \in Configs : x.directory = cfg.directory} :
          /\ cfg' = c
          /\ pc' = "main"
          /\ walk' = NoWalk
          /\ bk' = <<>>
          /\ stats' = ZeroStats
          /\ last' = NoCall
          /\ hist' = NewRun(hist, files)
    /\ UNCHANGED <<files, dirs>>

Next ==
    \/ Main
    \/ BackupName
    \/ BackupPlatform
    \/ Robocopy
    \/ CopyFile
    \/ BackupReturn
    \/ VerifyFile
    \/ VerifyReturn
    \/ ProcessFile
    \/ ProcessReturn

\* one run of main()
Spec == Init /\ [][Next]_vars

NextRepeat == Next \/ Restart

\* runs of main() one after the other on the same directory
SpecRepeat == InitRepeat /\ [][NextRepeat]_vars

-----------------------------------------------------------------------------
(* Calls of update_image_metadata on one image file, with any date argument *)

ImageContents == {Jpeg, JpegDated, JpegOtherTags, Blank("corrupt", 3), Truncated}

InitPatch ==
    \E name \in {WA_Name, WA_BadDate, Snap_Jpg}, c \in ImageContents :
        /\ files = Put(<<>>, <<Dir, name>>, c)
        /\ dirs = {<<Dir>>}
        /\ cfg = [mode |-> "whatsapp", directory |-> Dir, override |-> TRUE,
                  recursive |-> FALSE, date |-> NoDate]
        /\ pc = "patch"
        /\ walk = NoWalk
        /\ bk = <<>>
        /\ stats = ZeroStats
        /\ last = NoCall
        /\ hist = [run |-> 1, returned |-> <<>>, snap |-> files, presnap |-> files,
                   verified |-> {}, verr |-> {}, passed |-> {}, abort |-> "",
                   named |-> <<>>, bkDone |-> FALSE, vfDone |-> FALSE,
                   overwrote |-> FALSE, updated |-> [q \in {} |-> Absent]]

\* update_image_metadata(file_path, date), lines 156-183
PatchCall ==
    /\ pc = "patch"
    /\ stats.total < MaxCalls
    /\ \E p \in DOMAIN files, date \in Dates \cup {NoDate} :
          \E r \in update_image_metadata(files[p], p[Len(p)], date) :
              LET o == [op |-> "image", remux |-> "", result |-> r.result,
                        files |-> Put(files, p, r.after)]
              IN  /\ files' = o.files
                  /\ last' = [op |-> "image", path |-> p, result |-> r.result,
                              remux |-> "", before |-> files[p],
                              tempBefore |-> Absent,
                              prior |-> p \in DOMAIN hist.updated]
                  /\ hist' = [hist EXCEPT
                        !.passed = @ \cup {p},
                        !.updated = IF r.result = "updated" /\ p \notin DOMAIN @
                                    THEN Put(@, p, r.after) ELSE @]
                  /\ stats' = Count(stats, o)
    /\ UNCHANGED <<dirs, cfg, pc, walk, bk>>

NextPatch == PatchCall

SpecPatch == InitPatch /\ [][NextPatch]_vars

-----------------------------------------------------------------------------
(* Properties *)

Range(s) == {s[i] : i \in 1..Len(s)}

\* the path of the copy of source file q in the backup named by bk
Counterpart(q) ==
    Components(dst_file_of(bk, JoinComponents(q), cfg.directory))

\* the files below the directory main() was given
SourceFiles == {q \in DOMAIN files : IsUnder(q, Components(cfg.directory))}

TempOf(p) == [p EXCEPT ![Len(p)] = temp_file_of(@)]

\* the file carries a capture date (image) or a creation date (video)
HasDate(c) == (c.hasExif /\ c.dto # <<>>) \/ c.ctime # <<>>

ChangedSinceStart == \E q \in DOMAIN hist.snap : ContentAt(files, q) # hist.snap[q]

\* C1: with override false, no patcher is called and no file of the target
\* directory is changed before backup_directory has returned with the whole
\* tree copied and verify_backup has examined every source file; and a run that
\* backup_directory ends by raising has called no patcher and has left every
\* file of the target directory as it was.
C1_BackupBeforePatch ==
    /\ (~cfg.override /\ (hist.passed # {} \/ ChangedSinceStart))
          => /\ hist.bkDone
             /\ hist.vfDone
             /\ bk \in Range(hist.returned)
             /\ DOMAIN hist.snap \subseteq hist.verified
    /\ hist.abort = "backup"
          => pc = "aborted" /\ hist.passed = {} /\ ~ChangedSinceStart

\* a run with a backup that went on to update a file
C1_Witness ==
    ~cfg.override /\ pc = "done" /\ stats.updated > 0 /\ ChangedSinceStart

\* C2: a call of update_image_metadata on a file on which an earlier call
\* returned 'updated' returns 'exists', writes nothing, and leaves the file as
\* the first call left it, whatever the date argument.
C2_ImageIdempotent ==
    (last.op = "image" /\ last.prior)
        => /\ last.result = "exists"
           /\ files[last.path] = last.before
           /\ files[last.path] = hist.updated[last.path]

\* the second call on a file the first call updated
C2_Witness ==
    last.op = "image" /\ last.prior /\ stats.total = 2 /\ stats.updated = 1
        /\ stats.exists = 1

\* C3: no failure of a single file's patch ends process_directory early: the
\* walk visits every file and returns, and every matched file is counted as
\* exactly one of exists, updated or failed.
C3_FailureIsolation ==
    /\ hist.abort # "patch"
    /\ pc = "done" => stats.matched = stats.exists + stats.updated + stats.failed

\* C4: when the remux exits non-zero, update_video_metadata returns 'failed',
\* the original video is as it was and nothing is left at '<path>_temp.mp4';
\* the original is changed only by a call whose remux exited 0.
C4_VideoFailureAtomic ==
    /\ (last.op = "video" /\ last.remux = "nonzero")
          => /\ last.result = "failed"
             /\ ContentAt(files, last.path) = last.before
             /\ TempOf(last.path) \notin DOMAIN files
    /\ (last.op = "video" /\ ContentAt(files, last.path) # last.before)
          => last.remux = "zero" /\ last.result = "updated"

\* a video whose remux exited non-zero
C4_Witness ==
    last.op = "video" /\ last.remux = "nonzero" /\ last.tempBefore = Absent
        /\ stats.failed > 0

\* C5: when update_image_metadata returns 'failed', the image file has the
\* content it had before the call.
C5_ImageFailureSafe ==
    (last.op = "image" /\ last.result = "failed")
        => ContentAt(files, last.path) = last.before

\* the candidate names of a backup of the directory main() was given
BackupCandidate(n) ==
    IF n = 0 THEN backup_dir_base(cfg.directory)
    ELSE backup_dir_base(cfg.directory) \o <<"(">> \o IntToStr(n) \o <<")">>

\* C6: each call of backup_directory names the first of '<source>_backup',
\* '<source>_backup(1)', ... that does not exist when it is called; no two
\* calls return the same path, and no copy overwrites a file that exists.
C6_BackupNaming ==
    /\ pc = "platform"
          => \E n \in 0..MaxRuns :
                /\ bk = BackupCandidate(n)
                /\ ~os_path_exists(files, dirs, bk)
                /\ \A m \in 0..(n - 1) : os_path_exists(files, dirs, BackupCandidate(m))
    /\ \A i, j \in 1..Len(hist.returned) :
          i # j => hist.returned[i] # hist.returned[j]
    /\ ~hist.overwrote

\* C7: when backup_directory has returned, every file under the source tree has
\* a copy of the same content at the same relative path under the backup;
\* verify_backup logs no error for the copy it is given, and logs an error for
\* every source file it examined whose copy is missing or differs.
C7_BackupComplete ==
    /\ (pc = "verify" /\ hist.bkDone)
          => /\ \A q \in SourceFiles :
                   /\ Counterpart(q) \in DOMAIN files
                   /\ files[Counterpart(q)] = files[q]
             /\ \A q \in hist.verified :
                   (Counterpart(q) \notin DOMAIN files
                        \/ files[Counterpart(q)] # files[q])
                      => \E e \in hist.verr : e.path = q
    /\ hist.vfDone => hist.verr = {}

\* C8: a matched file that carries a capture or creation date when it is passed
\* to its patcher has the same content after the call.
C8_WriteOnlyWhenAbsent ==
    (last.op \in {"image", "video"} /\ HasDate(last.before))
        => ContentAt(files, last.path) = last.before

Matches(mode, filename) ==
    \/ mode = "whatsapp" /\ is_whatsapp_image(filename)
    \/ mode = "snapchat" /\ is_snapchat_file(filename)

\* C9: a file is passed to a patcher only if its name matches the active mode
\* and, when recursive is false, it lies directly in the directory; every file
\* that was not passed to a patcher has the content it had when the walk
\* started; a file that is not passed to a patcher counts only in total.
C9_WalkFrame ==
    /\ \A p \in hist.passed :
          /\ Matches(cfg.mode, p[Len(p)])
          /\ cfg.recursive \/ Len(p) = Len(Components(cfg.directory)) + 1
    /\ \A q \in DOMAIN hist.presnap :
          q \notin hist.passed => ContentAt(files, q) = hist.presnap[q]
    /\ pc = "done"
          => /\ stats.matched = Cardinality(hist.passed)
             /\ stats.matched = stats.exists + stats.updated + stats.failed

\* C10: the backup lies outside the tree process_directory walks: no file of
\* the backup is passed to a patcher, and every file of the backup has, at
\* the end of the run, the content it had when the patch phase started.
C10_BackupIsolation ==
    hist.bkDone
        => /\ \A p \in hist.passed : ~IsUnder(p, Components(bk))
           /\ \A q \in DOMAIN hist.presnap :
                 IsUnder(q, Components(bk)) => ContentAt(files, q) = hist.presnap[q]

====
